---- MODULE Spec2Model ----
(***************************************************************************)
(* A model of adafruit_lifx.py: the LIFX class, a client of the LIFX HTTP  *)
(* Remote API.  The state is the module namespace the class's code reads   *)
(* free names from, the one client instance (its attribute dictionary),    *)
(* and the traffic with the transport: the requests sent and the response  *)
(* objects obtained.  Python's name, attribute and item lookups are        *)
(* modelled with their failures (NameError, AttributeError, KeyError,      *)
(* TypeError), since which statement of a method is reached depends on     *)
(* them.                                                                   *)
(***************************************************************************)
EXTENDS Integers, Sequences, FiniteSets, TLC

VARIABLES
    globals,    \* bindings of the free names the code reads: wifi_manager, resp
    client,     \* the LIFX instance: which attributes are set, and their values
    ctor,       \* history: the arguments of the constructor call that made client
    requests,   \* history: every request handed to a transport, in order
    responses,  \* history: every response object obtained, with its closed flag
    calls,      \* history: number of operation calls made on the client
    last        \* history: the last call, its arguments, its traffic, its outcome

vars == <<globals, client, ctor, requests, responses, calls, last>>

\* ---------------------------------------------------------------- bounds

MaxCalls == 2

\* ------------------------------------------------------- Python values

LIFX_URL == "https://api.lifx.com/v1/lights/"

\* A JSON object: the keys it has and, for the keys the code reads, the value.
\* An element of a `results` list has the keys of ResultKeys.
Dict(keys, results, error) == [keys |-> keys, results |-> results, error |-> error]

EmptyDict == Dict({}, <<>>, "")

Result(keys, status) == [keys |-> keys, status |-> status]

\* What a call hands back: None, a str, or a parsed JSON body.
NoneValue == [type |-> "None", str |-> "", json |-> EmptyDict]

StrValue(s) == [type |-> "str", str |-> s, json |-> EmptyDict]

JsonValue(d) == [type |-> "json", str |-> "", json |-> d]

\* How a call ends.  origin tells a `raise` statement of the code ("raise")
\* from a failed lookup: of a name ("name"), an attribute ("attribute"), an
\* item ("lookup"), or an error of the transport ("transport").
Return(v) == [kind |-> "return", exc |-> "", origin |-> "", msg |-> "", value |-> v]

Raise(exc, origin, msg) ==
    [kind |-> "raise", exc |-> exc, origin |-> origin, msg |-> msg, value |-> NoneValue]

\* The traffic and the outcome of one method call.
Done(outcome, sent, got) == [outcome |-> outcome, sent |-> sent, got |-> got]

\* ---------------------------------------------------------- the transport

\* The objects a program may hand to the constructor, or have bound to a name.
\* type is str(type(obj)), the text the constructor searches.
spi == [name |-> "spi", type |-> "<class 'ESPSPI_WiFiManager'>"]

at == [name |-> "at", type |-> "<class 'ESPAT_WiFiManager'>"]

sock == [name |-> "sock", type |-> "<class 'socket'>"]

NoObject == [name |-> "", type |-> ""]

Objects == {spi, at, sock}

\* What a transport does with a request: it raises (ok = FALSE), or returns a
\* response object with a status code and a JSON body.  subscriptable tells
\* whether the response object itself supports response[key] (a mapping over
\* its body) or, like a plain HTTP response object, does not.
Reply(ok, status_code, body, subscriptable) ==
    [ok |-> ok, status_code |-> status_code, body |-> body, subscriptable |-> subscriptable]

Bodies ==
    { Dict({"results"}, <<Result({"status"}, "ok")>>, ""),
      Dict({"results"}, <<Result({"status"}, "timed_out"), Result({"status"}, "ok")>>, ""),
      Dict({"results"}, <<>>, ""),
      Dict({"results"}, <<Result({}, "")>>, ""),
      Dict({"error"}, <<>>, "no lights"),
      EmptyDict }

NoReply == Reply(FALSE, 0, EmptyDict, FALSE)

Replies ==
    {NoReply}
    \cup {Reply(TRUE, 200, b, TRUE) : b \in Bodies}
    \cup {Reply(TRUE, 200, b, FALSE) : b \in {Dict({"results"}, <<Result({"status"}, "ok")>>, ""),
                                             EmptyDict}}
    \cup {Reply(TRUE, 422, Dict({"error"}, <<>>, "no lights"), sub) : sub \in BOOLEAN}
    \cup {Reply(TRUE, 422, EmptyDict, FALSE)}

\* The response object the client holds for a reply; it starts open.
Response(reply) ==
    [status_code |-> reply.status_code, body |-> reply.body,
     subscriptable |-> reply.subscriptable, closed |-> FALSE]

Close(response) == [response EXCEPT !.closed = TRUE]

Request(via, method, url, json, headers) ==
    [via |-> via.name, method |-> method, url |-> url, json |-> json, headers |-> headers]

NoJson == [has |-> FALSE]

Json(data) == [has |-> TRUE, data |-> data]

\* ------------------------------------------------------------- the inputs

Tokens == {"c0ffee", "t0ken"}

Selectors == {"all", "id:abcd"}

\* The default of toggle_light's duration parameter.
DefaultDuration == 0

Durations == {DefaultDuration, 5}

\* A binding of a name: bound to value, or unbound.
Bound(v) == [bound |-> TRUE, value |-> v]

UnboundObject == [bound |-> FALSE, value |-> NoObject]

UnboundDict == [bound |-> FALSE, value |-> EmptyDict]

\* ------------------------------------------------------------ the client

\* 'sub' in s, for Python strings.
Contains(sub, s) ==
    \E i \in 1..(Len(s) - Len(sub) + 1) : SubSeq(s, i, i + Len(sub) - 1) = sub

\* A variant of AuthHeader that drops the space after the scheme.
AuthHeader_NoSpace(lifx_token) == [Authorization |-> "Bearer" \o lifx_token]

AuthHeader(lifx_token) == [Authorization |-> "Bearer " \o lifx_token]

NoClient ==
    [attrs |-> {}, wifi |-> NoObject, _wifi |-> NoObject, _lifx_token |-> "",
     _auth_header |-> [Authorization |-> ""]]

\* LIFX.__init__(self, wifi, lifx_token): the outcome and the instance it leaves.
\* The body reads the name wifi_manager, which is neither a parameter nor a
\* name the module defines: it is looked up in the module's namespace.
__init__(wifi, lifx_token) ==
    IF ~globals.wifi_manager.bound
    THEN [outcome |-> Raise("NameError", "name", "name 'wifi_manager' is not defined"),
          self |-> NoClient]
    ELSE LET wifi_manager == globals.wifi_manager.value
             wifi_type == wifi_manager.type
         IN  IF Contains("ESPSPI_WiFiManager", wifi_type)
                \/ Contains("ESPAT_WiFiManager", wifi_type)
             THEN [outcome |-> Return(NoneValue),
                   self |-> [attrs |-> {"wifi", "_lifx_token", "_auth_header"},
                             wifi |-> wifi_manager,
                             _wifi |-> NoObject,
                             _lifx_token |-> lifx_token,
                             _auth_header |-> AuthHeader(lifx_token)]]
             ELSE [outcome |-> Raise("TypeError", "raise",
                                     "This library requires a WiFiManager object."),
                   self |-> NoClient]

Constructed == client.attrs # {}

NoAttribute(name) ==
    Raise("AttributeError", "attribute", "'LIFX' object has no attribute '" \o name \o "'")

TransportError == Raise("RuntimeError", "transport", "")

\* ------------------------------------------------------------ the methods

\* The handler of the KeyError that _parse_resp catches: raise
\* KeyError(response['error']), whose own lookup fails when 'error' is missing.
ParseKeyError(response) ==
    IF "error" \in response.body.keys
    THEN Raise("KeyError", "raise", response.body.error)
    ELSE Raise("KeyError", "lookup", "error")

\* LIFX._parse_resp(response).  The 422 branch reads the name resp, which is
\* not the parameter: it is looked up in the module's namespace.  The other
\* branch subscripts the response object itself.
_parse_resp(response) ==
    IF response.status_code = 422
    THEN IF ~globals.resp.bound
         THEN Raise("NameError", "name", "name 'resp' is not defined")
         ELSE IF "error" \notin globals.resp.value.keys
              THEN Raise("KeyError", "lookup", "error")
              ELSE Raise("Exception", "raise",
                         "Error: light(s) could not be toggled: " \o globals.resp.value.error)
    ELSE IF ~response.subscriptable
         THEN Raise("TypeError", "lookup", "'Response' object is not subscriptable")
         ELSE IF "results" \notin response.body.keys
              THEN ParseKeyError(response)
              ELSE IF response.body.results = <<>>
                   THEN Return(NoneValue)
                   ELSE LET res == response.body.results[1]
                        IN  IF "status" \in res.keys
                            THEN Return(StrValue(res.status))
                            ELSE ParseKeyError(response)

\* LIFX._post(self, path, data), given the transport's reply.
_post(self, path, data, reply) ==
    IF "wifi" \notin self.attrs
    THEN Done(NoAttribute("wifi"), <<>>, <<>>)
    ELSE LET sent == <<Request(self.wifi, "POST", path, Json(data), self._auth_header)>>
         IN  IF ~reply.ok
             THEN Done(TransportError, sent, <<>>)
             ELSE LET response == Response(reply)
                  IN  Done(_parse_resp(response), sent, <<response>>)

\* A variant of TogglePath that never replaces the selector by 'all'.
TogglePath_KeepSelector(selector, all_lights) == LIFX_URL \o selector \o "/toggle"

\* The URL toggle_light composes.
TogglePath(selector, all_lights) ==
    LIFX_URL \o (IF all_lights THEN "all" ELSE selector) \o "/toggle"

\* LIFX.toggle_light(self, selector, all_lights, duration).
toggle_light(self, selector, all_lights, duration, reply) ==
    _post(self, TogglePath(selector, all_lights), [duration |-> duration], reply)

\* What the methods other than toggle_light do with the response they obtain:
\* resp = response.json(); on a 422 raise Exception(prefix + resp['error']);
\* otherwise close the response and return resp.
CheckResponse(prefix, sent, reply) ==
    IF ~reply.ok
    THEN Done(TransportError, sent, <<>>)
    ELSE LET response == Response(reply)
             resp == response.body
         IN  IF response.status_code = 422
             THEN IF "error" \in resp.keys
                  THEN Done(Raise("Exception", "raise", prefix \o resp.error), sent, <<response>>)
                  ELSE Done(Raise("KeyError", "lookup", "error"), sent, <<response>>)
             ELSE Done(Return(JsonValue(resp)), sent, <<Close(response)>>)

\* LIFX.move_effect(self, selector, move_direction, period, cycles, power_on).
move_effect(self, selector, move_direction, period, cycles, power_on, reply) ==
    IF "_wifi" \notin self.attrs
    THEN Done(NoAttribute("_wifi"), <<>>, <<>>)
    ELSE CheckResponse("Error: ",
            <<Request(self._wifi, "POST", LIFX_URL \o selector \o "/effects/move",
                      Json([direction |-> move_direction, period |-> period,
                            cycles |-> cycles, power_on |-> power_on]),
                      self._auth_header)>>,
            reply)

\* LIFX.effects_off(self, selector).
effects_off(self, selector, reply) ==
    IF "_wifi" \notin self.attrs
    THEN Done(NoAttribute("_wifi"), <<>>, <<>>)
    ELSE CheckResponse("Error: ",
            <<Request(self._wifi, "POST", LIFX_URL \o selector \o "/effects/off",
                      NoJson, self._auth_header)>>,
            reply)

\* LIFX.set_brightness(self, selector, brightness).
set_brightness(self, selector, brightness, reply) ==
    IF "_wifi" \notin self.attrs
    THEN Done(NoAttribute("_wifi"), <<>>, <<>>)
    ELSE CheckResponse("Error, light could not be set: ",
            <<Request(self._wifi, "PUT", LIFX_URL \o selector \o "/state",
                      Json([brightness |-> brightness]), self._auth_header)>>,
            reply)

\* LIFX.set_light(self, selector, power, color, brightness).
set_light(self, selector, power, color, brightness, reply) ==
    IF "_wifi" \notin self.attrs
    THEN Done(NoAttribute("_wifi"), <<>>, <<>>)
    ELSE CheckResponse("Error, light could not be set: ",
            <<Request(self._wifi, "PUT", LIFX_URL \o selector \o "/state",
                      Json([power |-> power, color |-> color, brightness |-> brightness]),
                      self._auth_header)>>,
            reply)

\* LIFX.list_lights(self): no status check; the response is closed and its
\* parsed body returned.
list_lights(self, reply) ==
    IF "_wifi" \notin self.attrs
    THEN Done(NoAttribute("_wifi"), <<>>, <<>>)
    ELSE LET sent == <<Request(self._wifi, "GET", LIFX_URL \o "all", NoJson,
                               self._auth_header)>>
         IN  IF ~reply.ok
             THEN Done(TransportError, sent, <<>>)
             ELSE Done(Return(JsonValue(Response(reply).body)), sent,
                       <<Close(Response(reply))>>)

\* ------------------------------------------------------------ the actions

NoCall == [op |-> "", args |-> <<>>, reply |-> NoReply,
           done |-> Done(Return(NoneValue), <<>>, <<>>)]

\* The state before any call.  The names wifi_manager (line 58) and resp
\* (line 72) are free in the methods that read them: Python looks them up, at
\* the time of the call, in the module's globals and then in the builtins.
\* The module binds neither, so as imported both are unbound and the read
\* raises NameError; a program that has bound the name (as a module attribute
\* or a builtin) gets that object instead.  Both are initial states, and no
\* action changes the bindings, since no code of the module assigns them.
Init ==
    /\ globals \in [wifi_manager : {UnboundObject} \cup {Bound(o) : o \in Objects},
                    resp : {UnboundDict, Bound(EmptyDict),
                            Bound(Dict({"error"}, <<>>, "stale"))}]
    /\ client = NoClient
    /\ ctor = [wifi |-> NoObject, lifx_token |-> ""]
    /\ requests = <<>>
    /\ responses = <<>>
    /\ calls = 0
    /\ last = NoCall

\* lifx = LIFX(wifi, lifx_token): the program constructs its one client.  A
\* constructor that raises leaves the program without a client.
Construct ==
    /\ ~Constructed
    /\ \E wifi \in Objects, lifx_token \in Tokens :
         LET r == __init__(wifi, lifx_token)
         IN  /\ client' = r.self
             /\ ctor' = IF r.outcome.kind = "return"
                        THEN [wifi |-> wifi, lifx_token |-> lifx_token]
                        ELSE ctor
             /\ last' = [op |-> "__init__",
                         args |-> [wifi |-> wifi, lifx_token |-> lifx_token],
                         reply |-> NoCall.reply,
                         done |-> Done(r.outcome, <<>>, <<>>)]
    /\ UNCHANGED <<globals, requests, responses, calls>>

\* The transport replies only to a request that reaches it: a method that
\* fails on the lookup of the attribute holding its transport hears nothing.
RepliesTo(self, attr) == IF attr \in self.attrs THEN Replies ELSE {NoReply}

\* What the history keeps of a response object.
Logged(response) == [status_code |-> response.status_code, closed |-> response.closed]

\* The bookkeeping common to the operation calls: the call is counted and its
\* traffic appended to the histories.  No method assigns to self.
Call(op, args, reply, done) ==
    /\ Constructed
    /\ calls < MaxCalls
    /\ calls' = calls + 1
    /\ requests' = requests \o done.sent
    /\ responses' = responses \o [i \in 1..Len(done.got) |-> Logged(done.got[i])]
    /\ last' = [op |-> op, args |-> args,
                reply |-> reply,
                done |-> done]
    /\ UNCHANGED <<globals, client, ctor>>

ToggleLight ==
    \E selector \in Selectors, all_lights \in BOOLEAN, duration \in Durations,
       reply \in RepliesTo(client, "wifi") :
        Call("toggle_light",
             [selector |-> selector, all_lights |-> all_lights, duration |-> duration],
             reply,
             toggle_light(client, selector, all_lights, duration, reply))

MoveEffect ==
    \E selector \in Selectors, move_direction \in {"forward", "backward"},
       period \in {1}, cycles \in {3}, power_on \in BOOLEAN, reply \in RepliesTo(client, "_wifi") :
        Call("move_effect",
             [selector |-> selector, move_direction |-> move_direction, period |-> period,
              cycles |-> cycles, power_on |-> power_on],
             reply,
             move_effect(client, selector, move_direction, period, cycles, power_on, reply))

EffectsOff ==
    \E selector \in Selectors, reply \in RepliesTo(client, "_wifi") :
        Call("effects_off", [selector |-> selector], reply,
             effects_off(client, selector, reply))

SetBrightness ==
    \E selector \in Selectors, brightness \in {"0.5", "1.0"}, reply \in RepliesTo(client, "_wifi") :
        Call("set_brightness", [selector |-> selector, brightness |-> brightness], reply,
             set_brightness(client, selector, brightness, reply))

SetLight ==
    \E selector \in Selectors, power \in {"on", "off"}, color \in {"red"},
       brightness \in {"0.5"}, reply \in RepliesTo(client, "_wifi") :
        Call("set_light",
             [selector |-> selector, power |-> power, color |-> color,
              brightness |-> brightness],
             reply,
             set_light(client, selector, power, color, brightness, reply))

ListLights ==
    \E reply \in RepliesTo(client, "_wifi") :
        Call("list_lights", <<>>, reply, list_lights(client, reply))

Next ==
    \/ Construct
    \/ ToggleLight
    \/ MoveEffect
    \/ EffectsOff
    \/ SetBrightness
    \/ SetLight
    \/ ListLights

Spec == Init /\ [][Next]_vars

\* ------------------------------------------------------------- the claims

Operations ==
    {"toggle_light", "move_effect", "effects_off", "set_brightness", "set_light", "list_lights"}

\* The error kinds of the specification, as the code raises them: an ApiError
\* is the Exception a method raises on a 422, a MalformedResponse the KeyError
\* _parse_resp raises for a body without the expected keys.
ApiError(outcome, text) ==
    outcome.kind = "raise" /\ outcome.exc = "Exception" /\ outcome.origin = "raise"
    /\ outcome.msg = text

MalformedResponse(outcome) ==
    outcome.kind = "raise" /\ outcome.exc = "KeyError" /\ outcome.origin = "raise"

IsWiFiManager(obj) ==
    Contains("ESPSPI_WiFiManager", obj.type) \/ Contains("ESPAT_WiFiManager", obj.type)

Bearer(token) == [Authorization |-> "Bearer " \o token]

\* C1: an operation whose request is answered with status 422 and a body with
\* an `error` field fails with an ApiError whose message is that error text.
C1_Error422IsApiError ==
    (last.op \in Operations /\ last.reply.ok /\ last.reply.status_code = 422
        /\ "error" \in last.reply.body.keys)
    => ApiError(last.done.outcome, last.reply.body.error)

\* C2: after n operation calls the transport has received exactly n requests,
\* each through the transport that was passed to the constructor.
C2_OneRequestPerCall ==
    /\ Len(requests) = calls
    /\ \A i \in 1..Len(requests) : requests[i].via = ctor.wifi.name

\* C3: toggle_light(s, all_lights, d) issues one POST, to LIFX_URL + s + '/toggle',
\* or to LIFX_URL + 'all/toggle' when all_lights is set, with the JSON body
\* {"duration": d}, d being 0 by default.
C3_ToggleRequest ==
    last.op = "toggle_light" =>
        /\ Len(last.done.sent) = 1
        /\ requests # <<>>
        /\ requests[Len(requests)] = last.done.sent[1]
        /\ last.done.sent[1].method = "POST"
        /\ last.done.sent[1].url =
              IF last.args.all_lights
              THEN "https://api.lifx.com/v1/lights/all/toggle"
              ELSE "https://api.lifx.com/v1/lights/" \o last.args.selector \o "/toggle"
        /\ last.done.sent[1].json.has
        /\ last.done.sent[1].json.data = [duration |-> last.args.duration]

\* C3 happens: a toggle with all_lights set and another selector went to
\* all/toggle, and a toggle with the defaults carried {"duration": 0}.
C3_Witness ==
    /\ last.op = "toggle_light"
    /\ Len(requests) = 2
    /\ last.args.all_lights /\ last.args.selector = "id:abcd"
    /\ requests[2].url = "https://api.lifx.com/v1/lights/all/toggle"
    /\ requests[1].url = "https://api.lifx.com/v1/lights/id:abcd/toggle"
    /\ requests[1].json.data = [duration |-> 0]

\* C4: every request sent carries Authorization: "Bearer t", t the token the
\* client was constructed with, and the client's stored token and header are
\* what construction made them.
C4_AuthHeaderKept ==
    Constructed =>
        /\ client._lifx_token = ctor.lifx_token
        /\ client._auth_header = Bearer(ctor.lifx_token)
        /\ \A i \in 1..Len(requests) : requests[i].headers = Bearer(ctor.lifx_token)

\* C4 happens: two operations later, both requests carry the token's header.
C4_Witness ==
    /\ Constructed /\ calls = 2 /\ Len(requests) = 2
    /\ ctor.lifx_token = "t0ken"
    /\ requests[1].headers.Authorization = "Bearer t0ken"
    /\ requests[2].headers.Authorization = "Bearer t0ken"

\* C5: every call of list_lights issues one GET to LIFX_URL + 'all' and returns
\* the parsed JSON body of the response to that GET.
C5_ListLights ==
    last.op = "list_lights" =>
        /\ Len(last.done.sent) = 1
        /\ last.done.sent[1].method = "GET"
        /\ last.done.sent[1].url = "https://api.lifx.com/v1/lights/all"
        /\ last.reply.ok => last.done.outcome = Return(JsonValue(last.reply.body))

\* C6: toggle_light, answered with a status other than 422 and a body with
\* neither `results` nor `error`, fails with MalformedResponse and nothing else.
C6_ToggleMalformed ==
    (last.op = "toggle_light" /\ last.reply.ok /\ last.reply.status_code # 422
        /\ last.reply.body.keys \cap {"results", "error"} = {})
    => MalformedResponse(last.done.outcome)

\* C7: LIFX(wifi, lifx_token) with a WiFiManager as wifi succeeds and yields a
\* client holding wifi and the header for lifx_token; with any other object
\* it fails with the TypeError and yields no client.
C7_Constructor ==
    last.op = "__init__" =>
        IF IsWiFiManager(last.args.wifi)
        THEN /\ last.done.outcome.kind = "return"
             /\ Constructed
             /\ client.wifi = last.args.wifi
             /\ client._auth_header = Bearer(last.args.lifx_token)
        ELSE /\ last.done.outcome =
                   Raise("TypeError", "raise", "This library requires a WiFiManager object.")
             /\ ~Constructed

\* C8: set_brightness, set_light, move_effect and effects_off each send the
\* request of the specification's mapping, the selector and values unaltered.
C8_StateChangingRequests ==
    /\ last.op \in {"set_brightness", "set_light", "move_effect", "effects_off"}
         => Len(last.done.sent) = 1
    /\ last.op = "set_brightness" =>
         /\ last.done.sent[1].method = "PUT"
         /\ last.done.sent[1].url = LIFX_URL \o last.args.selector \o "/state"
         /\ last.done.sent[1].json = Json([brightness |-> last.args.brightness])
    /\ last.op = "set_light" =>
         /\ last.done.sent[1].method = "PUT"
         /\ last.done.sent[1].url = LIFX_URL \o last.args.selector \o "/state"
         /\ last.done.sent[1].json =
               Json([power |-> last.args.power, color |-> last.args.color,
                     brightness |-> last.args.brightness])
    /\ last.op = "move_effect" =>
         /\ last.done.sent[1].method = "POST"
         /\ last.done.sent[1].url = LIFX_URL \o last.args.selector \o "/effects/move"
         /\ last.done.sent[1].json =
               Json([direction |-> last.args.move_direction, period |-> last.args.period,
                     cycles |-> last.args.cycles, power_on |-> last.args.power_on])
    /\ last.op = "effects_off" =>
         /\ last.done.sent[1].method = "POST"
         /\ last.done.sent[1].url = LIFX_URL \o last.args.selector \o "/effects/off"
         /\ ~last.done.sent[1].json.has

\* C9: toggle_light, answered with a status other than 422 and a body with a
\* `results` list, returns the `status` of the list's first element; the other
\* operations, answered with a status other than 422, return the parsed body.
C9_ReturnValues ==
    /\ (last.op = "toggle_light" /\ last.reply.ok /\ last.reply.status_code # 422
          /\ "results" \in last.reply.body.keys /\ last.reply.body.results # <<>>
          /\ "status" \in last.reply.body.results[1].keys)
       => last.done.outcome = Return(StrValue(last.reply.body.results[1].status))
    /\ (last.op \in Operations \ {"toggle_light"} /\ last.reply.ok
          /\ last.reply.status_code # 422)
       => last.done.outcome = Return(JsonValue(last.reply.body))

\* C10: every response object an operation obtained is closed once the
\* operation has completed, whether it returned or failed.
C10_ResponsesClosed ==
    \A i \in 1..Len(responses) : responses[i].closed

====
